---------------------------- MODULE Spec2Model ----------------------------
(***************************************************************************)
(* Model of the libcuckoo benchmark testing framework                      *)
(*   src/testing-framework/configuration.py   catalog, matrix, naming      *)
(*   src/testing-framework/run_benchmarks.py  build/run driver, campaign    *)
(*   src/testing-framework/gather_results.py  get_stat matcher              *)
(*                                                                         *)
(* A Python str is modelled as a sequence of one-character strings, so     *)
(* that formatting ('%s' substitution) and str.split are computed on       *)
(* characters.  An absolute path is a sequence of path components.         *)
(***************************************************************************)
EXTENDS Integers, Sequences, FiniteSets, TLC

(***************************************************************************)
(* Bounds of the model.                                                    *)
(***************************************************************************)
MaxAxis == 2
MaxNameLen == 2
MaxSpecLen == 1
MaxTokens == 4
MaxRecords == 2
MaxCalls == 3

VARIABLES
    all_params,   \* AllParameters: [args, keys, values, tables]
    gen,          \* generator of get_build_configurations: [pos, done]
    yielded,      \* the BuildConfigurations the generator has yielded so far
    confA, confB, \* two BuildConfiguration objects
    argA, argB,   \* two argspec names
    named,        \* the names computed for confA/confB, or NoNames
    query,        \* get_stat's arguments: [argspec, key, value, outstat]
    pc,           \* get_stat's position: "idle", "loop", "returned", "raised"
    argspec_set,  \* get_stat's local argspec_set
    datum,        \* get_stat's loop variable: the record being examined
    seen,         \* number of records of data the loop has consumed
    ret,          \* get_stat's local ret: [x_axis, xs, ys, y_axis]
    result,       \* what get_stat gave its caller: a series or an exception
    cwd,          \* the process working directory (an absolute path)
    dirs,         \* the directories that exist
    configured,   \* the build directories cmake has configured since their creation
    files,        \* the result files that exist
    RESULTS_DIR,  \* run_benchmarks.RESULTS_DIR, fixed when the module is imported
    events,       \* the external steps taken: processes started, result files opened
    last,         \* the driver call that ended last: [call, config, force, build_dir, raised]
    calls,        \* number of driver calls made
    main          \* __main__: [phase, build_config]

matrixVars == <<gen, yielded>>
namingVars == <<confA, confB, argA, argB, named>>
statVars == <<query, pc, argspec_set, datum, seen, ret, result>>
driverVars == <<cwd, dirs, configured, files, RESULTS_DIR, events, last, calls, main>>
vars == <<all_params, gen, yielded, confA, confB, argA, argB, named,
          query, pc, argspec_set, datum, seen, ret, result,
          cwd, dirs, configured, files, RESULTS_DIR, events, last, calls, main>>

(***************************************************************************)
(* Strings as character sequences.                                         *)
(***************************************************************************)
RECURSIVE Concat(_)
Concat(parts) ==
    IF parts = <<>> THEN <<>> ELSE Head(parts) \o Concat(Tail(parts))

SeqsUpTo(S, lo, hi) == UNION { [1..n -> S] : n \in lo..hi }

Sep3 == <<"_","_","_">>
LitBuild == <<"b","u","i","l","d">>
LitResults == <<"r","e","s","u","l","t","s">>
LitJson == <<".","j","s","o","n">>

(***************************************************************************)
(* configuration.py: BuildConfiguration                                    *)
(***************************************************************************)
BuildConfiguration(key, value, table) ==
    [key |-> key, value |-> value, table |-> table]

\* 'build___%s___%s___%s' % (self.key, self.value, self.table)
build_dir(c) ==
    Concat(<<LitBuild, Sep3, c.key, Sep3, c.value, Sep3, c.table>>)

\* 'results___%s___%s___%s___%s.json' % (key, value, table, argspec)
result_file(c, argspec) ==
    Concat(<<LitResults, Sep3, c.key, Sep3, c.value, Sep3, c.table, Sep3,
             argspec, LitJson>>)

cmake_parameters(c) ==
    << <<"-","D","B","U","I","L","D","_","U","N","I","V","E","R","S","A","L",
         "_","B","E","N","C","H","M","A","R","K","=","1">>,
       <<"-","D","U","N","I","V","E","R","S","A","L","_","K","E","Y","=">>
           \o c.key,
       <<"-","D","U","N","I","V","E","R","S","A","L","_","V","A","L","U","E",
         "=">> \o c.value,
       <<"-","D","U","N","I","V","E","R","S","A","L","_","T","A","B","L","E",
         "=">> \o c.table >>

(***************************************************************************)
(* configuration.py: AllParameters.get_build_configurations                *)
(* itertools.product(keys, values, tables) is an odometer over the three   *)
(* pools: the rightmost index advances on every yield and carries left.    *)
(***************************************************************************)
AllParameters(a, k, v, t) == [args |-> a, keys |-> k, values |-> v, tables |-> t]

product_start(p) ==
    [pos |-> <<1, 1, 1>>,
     done |-> (Len(p.keys) = 0 \/ Len(p.values) = 0 \/ Len(p.tables) = 0)]

product_advance_keyfastest(p, pos) ==
    IF pos[1] < Len(p.keys) THEN [pos |-> <<pos[1] + 1, pos[2], pos[3]>>, done |-> FALSE]
    ELSE IF pos[2] < Len(p.values) THEN [pos |-> <<1, pos[2] + 1, pos[3]>>, done |-> FALSE]
    ELSE IF pos[3] < Len(p.tables) THEN [pos |-> <<1, 1, pos[3] + 1>>, done |-> FALSE]
    ELSE [pos |-> pos, done |-> TRUE]

product_advance(p, pos) ==
    IF pos[3] < Len(p.tables) THEN [pos |-> <<pos[1], pos[2], pos[3] + 1>>, done |-> FALSE]
    ELSE IF pos[2] < Len(p.values) THEN [pos |-> <<pos[1], pos[2] + 1, 1>>, done |-> FALSE]
    ELSE IF pos[1] < Len(p.keys) THEN [pos |-> <<pos[1] + 1, 1, 1>>, done |-> FALSE]
    ELSE [pos |-> pos, done |-> TRUE]

\* One `yield BuildConfiguration(key, value, table)` of the generator.
get_build_configurations ==
    /\ ~gen.done
    /\ yielded' = Append(yielded,
                    BuildConfiguration(all_params.keys[gen.pos[1]],
                                       all_params.values[gen.pos[2]],
                                       all_params.tables[gen.pos[3]]))
    /\ gen' = product_advance(all_params, gen.pos)
    /\ UNCHANGED <<all_params, namingVars, statVars, driverVars>>

NoConf == BuildConfiguration(<<>>, <<>>, <<>>)
NoNames == [dirA |-> <<>>, dirB |-> <<>>, fileA |-> <<>>, fileB |-> <<>>, set |-> FALSE]
NamingIdle ==
    /\ confA = NoConf /\ confB = NoConf
    /\ argA = <<>> /\ argB = <<>>
    /\ named = NoNames

MatrixIdle ==
    /\ gen = [pos |-> <<1, 1, 1>>, done |-> TRUE]
    /\ yielded = <<>>

(***************************************************************************)
(* gather_results.py: get_stat                                             *)
(***************************************************************************)
\* The characters str.split() with no argument separates on: the blank, tab,
\* newline, carriage return, form feed, vertical tab (0x0b), the separators
\* 0x1c-0x1f, and the Unicode spaces.  A character outside ASCII stands in
\* the model under its code point name.
Whitespace ==
    { " ", "\t", "\n", "\r", "\f", "", "", "", "", "",
      "U+0085", "U+00A0", "U+1680", "U+2000", "U+2001", "U+2002", "U+2003",
      "U+2004", "U+2005", "U+2006", "U+2007", "U+2008", "U+2009", "U+200A",
      "U+2028", "U+2029", "U+202F", "U+205F", "U+3000" }

\* str.split(): the maximal runs of non-whitespace characters, in order.
RECURSIVE split_scan(_, _, _)
split_scan(s, cur, acc) ==
    IF s = <<>> THEN (IF cur = <<>> THEN acc ELSE Append(acc, cur))
    ELSE IF Head(s) \in Whitespace
         THEN split_scan(Tail(s), <<>>, IF cur = <<>> THEN acc ELSE Append(acc, cur))
         ELSE split_scan(Tail(s), Append(cur, Head(s)), acc)

split(s) == split_scan(s, <<>>, <<>>)

\* range(0, n, 2)
range2(n) == { i \in 0..(n - 1) : i % 2 = 0 }

\* build_argset drops an unpaired trailing token instead of failing.
build_argset_lenient(argsline) ==
    LET components == split(argsline)
        idx == { i \in range2(Len(components)) : i + 1 <= Len(components) - 1 }
    IN  [raised |-> "none",
         argset |-> { <<components[i + 1], components[i + 2]>> : i \in idx }]

\* build_argset: components[i + 1] raises IndexError when i is the last index.
build_argset(argsline) ==
    LET components == split(argsline)
        idx == range2(Len(components))
    IN  IF \E i \in idx : i + 1 > Len(components) - 1
        THEN [raised |-> "IndexError", argset |-> {}]
        ELSE [raised |-> "none",
              argset |-> { <<components[i + 1], components[i + 2]>> : i \in idx }]

LitTableType == <<"T","a","b","l","e"," ","T","y","p","e">>

\* ret as get_stat creates it
ret_init == [x_axis |-> LitTableType, xs |-> <<>>, ys |-> <<>>, y_axis |-> <<>>]

\* '%s (%s)' % (outstat_dict['name'], outstat_dict['units'])
y_axis_label(outstat_dict) ==
    Concat(<<outstat_dict.name, <<" ", "(">>, outstat_dict.units, <<")">> >>)

NoSeries == [kind |-> "none"]
Returned(r) == [kind |-> "series", series |-> r]
Raised(e) == [kind |-> e]

\* The exact-match strategy: the flag sets must be equal.
datum_matches_exact(aset, d_argset, d, key, value) ==
    /\ aset = d_argset
    /\ d.key = key
    /\ d.value = value

\* The match test of the loop body.
datum_matches(aset, d_argset, d, key, value) ==
    /\ aset \subseteq d_argset
    /\ d.key = key
    /\ d.value = value

\* A loop body that skips a matching record without the statistic.
get_stat_body_skip(r, aset, d, key, value, outstat) ==
    LET d_args == build_argset(d.args) IN
    IF d_args.raised # "none" THEN [raised |-> d_args.raised, ret |-> r]
    ELSE IF datum_matches(aset, d_args.argset, d, key, value)
            /\ outstat \in DOMAIN d.output
    THEN LET outstat_dict == d.output[outstat] IN
         [raised |-> "none",
          ret |-> [r EXCEPT !.xs = Append(@, d.table),
                            !.ys = Append(@, outstat_dict.value),
                            !.y_axis = y_axis_label(outstat_dict)]]
    ELSE [raised |-> "none", ret |-> r]

\* A loop body that puts the table of a match in front of xs.
get_stat_body_prepend(r, aset, d, key, value, outstat) ==
    LET d_args == build_argset(d.args) IN
    IF d_args.raised # "none" THEN [raised |-> d_args.raised, ret |-> r]
    ELSE IF datum_matches(aset, d_args.argset, d, key, value)
    THEN IF outstat \notin DOMAIN d.output
         THEN [raised |-> "KeyError", ret |-> r]
         ELSE LET outstat_dict == d.output[outstat] IN
              [raised |-> "none",
               ret |-> [r EXCEPT !.xs = <<d.table>> \o @,
                                 !.ys = Append(@, outstat_dict.value),
                                 !.y_axis = y_axis_label(outstat_dict)]]
    ELSE [raised |-> "none", ret |-> r]

\* The loop body of get_stat for one datum: the new ret, or the exception.
get_stat_body(r, aset, d, key, value, outstat) ==
    LET d_args == build_argset(d.args) IN
    IF d_args.raised # "none" THEN [raised |-> d_args.raised, ret |-> r]
    ELSE IF datum_matches(aset, d_args.argset, d, key, value)
    THEN IF outstat \notin DOMAIN d.output
         THEN [raised |-> "KeyError", ret |-> r]
         ELSE LET outstat_dict == d.output[outstat] IN
              [raised |-> "none",
               ret |-> [r EXCEPT !.xs = Append(@, d.table),
                                 !.ys = Append(@, outstat_dict.value),
                                 !.y_axis = y_axis_label(outstat_dict)]]
    ELSE [raised |-> "none", ret |-> r]

\* get_stat up to the loop: ret is created and the argspec is tokenised.
GetStatBegin ==
    /\ pc = "idle"
    /\ ret' = ret_init
    /\ IF query.argspec \notin DOMAIN all_params.args
       THEN /\ pc' = "raised"
            /\ result' = Raised("KeyError")
            /\ UNCHANGED argspec_set
       ELSE LET a == build_argset(all_params.args[query.argspec]) IN
            IF a.raised # "none"
            THEN /\ pc' = "raised"
                 /\ result' = Raised(a.raised)
                 /\ UNCHANGED argspec_set
            ELSE /\ pc' = "loop"
                 /\ argspec_set' = a.argset
                 /\ UNCHANGED result
    /\ UNCHANGED <<all_params, matrixVars, namingVars, driverVars, query, datum, seen>>

\* One iteration of `for datum in data`, d being the next record of data.
GetStatIter(d) ==
    /\ pc = "loop"
    /\ seen < MaxRecords
    /\ datum' = d
    /\ seen' = seen + 1
    /\ LET b == get_stat_body(ret, argspec_set, d, query.key, query.value,
                              query.outstat) IN
       /\ ret' = b.ret
       /\ IF b.raised # "none"
          THEN pc' = "raised" /\ result' = Raised(b.raised)
          ELSE pc' = "loop" /\ UNCHANGED result
    /\ UNCHANGED <<all_params, matrixVars, namingVars, driverVars, query, argspec_set>>

\* data is exhausted: `return ret`.
GetStatReturn ==
    /\ pc = "loop"
    /\ pc' = "returned"
    /\ result' = Returned(ret)
    /\ UNCHANGED <<all_params, matrixVars, namingVars, driverVars, query,
                   argspec_set, datum, seen, ret>>

(***************************************************************************)
(* run_benchmarks.py: the build/run driver.                                *)
(* The file system is the set of existing directories, the set of build    *)
(* directories that hold a completed cmake configuration, and the set of   *)
(* existing result files.  A call is one atomic step; the exit status of   *)
(* each external process is an input of the call.                          *)
(***************************************************************************)
SCRIPT_DIR == << <<"t","f">> >>
WORK_DIR == << <<"w">> >>
\* os.path.join(SCRIPT_DIR, '..')
CMAKE_ROOT == SCRIPT_DIR \o << <<".", ".">> >>
LitCmake == <<"c","m","a","k","e">>
LitMake == <<"m","a","k","e">>
LitTests == <<"t","e","s","t","s">>
LitBenchDir == <<"u","n","i","v","e","r","s","a","l","-","b","e","n","c","h","m","a","r","k">>
LitBenchmark == <<"u","n","i","v","e","r","s","a","l","_","b","e","n","c","h","m","a","r","k">>

\* os.path.abspath(name) for a one-component relative name, in directory wd
abspath(wd, name) == wd \o <<name>>

IsPrefix(p, q) == Len(p) <= Len(q) /\ SubSeq(q, 1, Len(p)) = p

\* shutil.rmtree(path): the paths of S that survive
rmtree(S, path) == { d \in S : ~IsPrefix(path, d) }

Event(kind, dir, argv, file, exit) ==
    [kind |-> kind, dir |-> dir, argv |-> argv, file |-> file, exit |-> exit]

Outcome(wd, D, C, F, ev, exc) ==
    [cwd |-> wd, dirs |-> D, configured |-> C, files |-> F, events |-> ev,
     raised |-> exc]

\* create_build_configuration that rebuilds whether or not the directory exists
create_build_configuration_rebuild(fs, build_config, force_rebuild, cmake_exit) ==
    LET bd == abspath(fs.cwd, build_dir(build_config))
        D1 == rmtree(fs.dirs, bd) \cup {bd}
        C0 == rmtree(fs.configured, bd)
        F0 == rmtree(fs.files, bd)
        cmake == Event("cmake", bd, <<LitCmake>> \o cmake_parameters(build_config),
                       CMAKE_ROOT, cmake_exit)
    IN  IF cmake_exit # 0
        THEN Outcome(bd, D1, C0, F0, <<cmake>>, "CalledProcessError")
        ELSE Outcome(SCRIPT_DIR, D1, C0 \cup {bd}, F0, <<cmake>>, "none")

\* create_build_configuration(build_config, force_rebuild).  A directory made
\* by os.mkdir is empty, so the CMakeCache.txt branch (lines 23-25) never runs.
create_build_configuration(fs, build_config, force_rebuild, cmake_exit) ==
    LET bd == abspath(fs.cwd, build_dir(build_config))
        D1 == rmtree(fs.dirs, bd) \cup {bd}
        C0 == rmtree(fs.configured, bd)
        F0 == rmtree(fs.files, bd)
        cmake == Event("cmake", bd, <<LitCmake>> \o cmake_parameters(build_config),
                       CMAKE_ROOT, cmake_exit)
    IN  IF bd \in fs.dirs /\ ~force_rebuild
        THEN Outcome(fs.cwd, fs.dirs, fs.configured, fs.files, <<>>, "none")
        ELSE IF cmake_exit # 0
        THEN Outcome(bd, D1, C0, F0, <<cmake>>, "CalledProcessError")
        ELSE Outcome(SCRIPT_DIR, D1, C0 \cup {bd}, F0, <<cmake>>, "none")

\* run_argspec that ignores the benchmark's exit status (subprocess.call)
run_argspec_unchecked(acc, rdir, args, build_config, bd, argspec, bench_exit) ==
    IF acc.raised # "none" THEN acc
    ELSE IF argspec \notin DOMAIN args
    THEN [acc EXCEPT !.raised = "KeyError"]
    ELSE LET cmdline_args == args[argspec]
             output_file == rdir \o <<result_file(build_config, argspec)>>
             exe == bd \o <<LitTests, LitBenchDir, LitBenchmark>>
             opened == Event("open", rdir, <<>>, output_file, 0)
             bench == Event("benchmark", rdir, split(cmdline_args), exe, bench_exit)
         IN  [files |-> acc.files \cup {output_file},
              events |-> acc.events \o <<opened, bench>>,
              raised |-> "none"]

\* The body of `for argspec in argspecs` for one argspec: acc is
\* [files, events, raised]; nothing runs once an exception is raised.
run_argspec(acc, rdir, args, build_config, bd, argspec, bench_exit) ==
    IF acc.raised # "none" THEN acc
    ELSE IF argspec \notin DOMAIN args
    THEN [acc EXCEPT !.raised = "KeyError"]
    ELSE LET cmdline_args == args[argspec]
             output_file == rdir \o <<result_file(build_config, argspec)>>
             exe == bd \o <<LitTests, LitBenchDir, LitBenchmark>>
             opened == Event("open", rdir, <<>>, output_file, 0)
             bench == Event("benchmark", rdir, split(cmdline_args), exe, bench_exit)
         IN  [files |-> acc.files \cup {output_file},
              events |-> acc.events \o <<opened, bench>>,
              raised |-> IF bench_exit # 0 THEN "CalledProcessError" ELSE "none"]

RECURSIVE run_argspecs(_, _, _, _, _, _, _, _)
run_argspecs(acc, rdir, args, build_config, bd, argspecs, bench_exits, i) ==
    IF i > Len(argspecs) THEN acc
    ELSE run_argspecs(run_argspec(acc, rdir, args, build_config, bd,
                                  argspecs[i], bench_exits[i]),
                      rdir, args, build_config, bd, argspecs, bench_exits, i + 1)

\* run_configuration(all_params, build_config, argspecs)
run_configuration(fs, rdir, p, build_config, argspecs, make_exit, bench_exits) ==
    LET bd == abspath(fs.cwd, build_dir(build_config))
        make == Event("make", bd, <<LitMake, LitBenchmark>>, bd, make_exit)
        \* os.chdir('..') from build_dir
        parent == SubSeq(bd, 1, Len(bd) - 1)
        D1 == fs.dirs \cup {rdir}
        loop == run_argspecs([files |-> fs.files, events |-> <<make>>, raised |-> "none"],
                             rdir, p.args, build_config, bd, argspecs, bench_exits, 1)
    IN  IF bd \notin fs.dirs
        THEN Outcome(fs.cwd, fs.dirs, fs.configured, fs.files, <<>>, "FileNotFoundError")
        ELSE IF make_exit # 0
        THEN Outcome(bd, fs.dirs, fs.configured, fs.files, <<make>>, "CalledProcessError")
        ELSE IF loop.raised # "none"
        THEN Outcome(parent, D1, fs.configured, loop.files, loop.events, loop.raised)
        ELSE Outcome(SCRIPT_DIR, D1, fs.configured, loop.files, loop.events, "none")

\* The file system and working directory as the calls see them.
FS == [cwd |-> cwd, dirs |-> dirs, configured |-> configured, files |-> files]

ExitCodes == { 0, 1 }

NoCall == [call |-> "none", config |-> NoConf, force |-> FALSE,
           build_dir |-> <<>>, raised |-> "none"]
NoMain == [phase |-> "off", build_config |-> NoConf]
DriverIdle ==
    /\ cwd = <<>> /\ dirs = {} /\ configured = {} /\ files = {}
    /\ RESULTS_DIR = <<>> /\ events = <<>>
    /\ last = NoCall /\ calls = 0 /\ main = NoMain

(***************************************************************************)
(* Inputs of the get_stat specification.  An argument line is up to        *)
(* MaxTokens tokens, alternately a flag and a flag value.  A benchmark     *)
(* records its line with single blanks; a catalog line is written with a   *)
(* leading tab, a blank and a newline between tokens, and a trailing       *)
(* carriage return and no-break space.                                     *)
(***************************************************************************)
Flags == { "a" }
FlagValues == { "1", "2" }
TokenSeqs ==
    UNION { { t \in [1..n -> Flags \cup FlagValues] :
                \A i \in 1..n : t[i] \in (IF i % 2 = 1 THEN Flags ELSE FlagValues) }
            : n \in 0..MaxTokens }

RECURSIVE join(_, _)
join(toks, sep) ==
    IF toks = <<>> THEN <<>>
    ELSE IF Len(toks) = 1 THEN <<Head(toks)>>
    ELSE <<Head(toks)>> \o sep \o join(Tail(toks), sep)

ArgLines == { join(t, <<" ">>) : t \in TokenSeqs }
CatalogLines ==
    { <<"\t">> \o join(t, <<" ", "\n">>) \o <<"\r", "U+00A0">> : t \in TokenSeqs }

KeyNames == { <<"i">>, <<"s">> }
ValueNames == { <<"i">>, <<"s">> }
TableNames == { <<"A">>, <<"B">> }
StatNames == { "time" }
StatDicts == { [name |-> <<"T">>, units |-> <<"n">>, value |-> 1],
               [name |-> <<"T">>, units |-> <<"s">>, value |-> 2] }
Outputs == UNION { [S -> StatDicts] : S \in SUBSET StatNames }

\* A ResultRecord as json.load returns it.
Records == [args : ArgLines, key : KeyNames, value : ValueNames,
            table : TableNames, output : Outputs]

ArgSpecNames == { <<"b">> }
QueryKey == <<"i">>
QueryValue == <<"i">>
QueryNames == ArgSpecNames \cup { <<"x">> }

NoDatum == [args |-> <<>>, key |-> <<>>, value |-> <<>>, table |-> <<>>,
            output |-> <<>>]
NoQuery == [argspec |-> <<>>, key |-> <<>>, value |-> <<>>, outstat |-> ""]
StatIdle ==
    /\ query = NoQuery
    /\ pc = "done"
    /\ argspec_set = {}
    /\ datum = NoDatum
    /\ seen = 0
    /\ ret = ret_init
    /\ result = NoSeries

InitStat ==
    /\ \E a \in [ArgSpecNames -> CatalogLines] :
          all_params = AllParameters(a, <<>>, <<>>, <<>>)
    /\ MatrixIdle
    /\ NamingIdle
    /\ query \in [argspec : QueryNames, key : {QueryKey}, value : {QueryValue},
                  outstat : StatNames]
    /\ pc = "idle"
    /\ argspec_set = {}
    /\ datum = NoDatum
    /\ seen = 0
    /\ ret = ret_init
    /\ result = NoSeries
    /\ DriverIdle

NextStat ==
    \/ GetStatBegin
    \/ \E d \in Records : GetStatIter(d)
    \/ GetStatReturn

SpecStat == InitStat /\ [][NextStat]_vars

(***************************************************************************)
(* Inputs of the matrix specification: axis lists as json.load returns     *)
(* them (lists, so an entry may repeat), of up to MaxAxis entries.         *)
(***************************************************************************)
AxisNames == { <<"a">>, <<"b">> }
AxisLists == SeqsUpTo(AxisNames, 0, MaxAxis)

InitMatrix ==
    /\ \E k \in AxisLists, v \in AxisLists, t \in AxisLists :
          all_params = AllParameters(<<>>, k, v, t)
    /\ gen = product_start(all_params)
    /\ yielded = <<>>
    /\ NamingIdle
    /\ StatIdle
    /\ DriverIdle

NextMatrix == get_build_configurations

SpecMatrix == InitMatrix /\ [][NextMatrix]_vars

(***************************************************************************)
(* Naming specification: two configurations and two argspec names, built   *)
(* from arbitrary non-empty strings over a letter and the underscore, are  *)
(* named by build_dir and result_file.                                     *)
(***************************************************************************)
NameChars == { "a", "_" }
NameStrings == SeqsUpTo(NameChars, 1, MaxNameLen)
SpecStrings == SeqsUpTo(NameChars, 1, MaxSpecLen)

InitNaming ==
    /\ all_params = AllParameters(<<>>, <<>>, <<>>, <<>>)
    /\ MatrixIdle
    /\ \E k1 \in NameStrings, v1 \in NameStrings, t1 \in NameStrings :
          confA = BuildConfiguration(k1, v1, t1)
    /\ \E k2 \in NameStrings, v2 \in NameStrings, t2 \in NameStrings :
          confB = BuildConfiguration(k2, v2, t2)
    /\ argA \in SpecStrings
    /\ argB \in SpecStrings
    /\ named = NoNames
    /\ StatIdle
    /\ DriverIdle

NameConfigurations ==
    /\ ~named.set
    /\ named' = [dirA |-> build_dir(confA), dirB |-> build_dir(confB),
                 fileA |-> result_file(confA, argA),
                 fileB |-> result_file(confB, argB),
                 set |-> TRUE]
    /\ UNCHANGED <<all_params, matrixVars, confA, confB, argA, argB, statVars, driverVars>>

NextNaming == NameConfigurations

SpecNaming == InitNaming /\ [][NextNaming]_vars

(***************************************************************************)
(* Driver specification: a caller makes up to MaxCalls calls of            *)
(* create_build_configuration and run_configuration, in any order, with    *)
(* any exit status of the external processes, and survives exceptions.     *)
(***************************************************************************)
LitResultsDir == <<"r","e","s","u","l","t","s">>
StartDirs == { SCRIPT_DIR, WORK_DIR }
DriverArgs == [n \in { <<"b">>, <<"w">> } |->
                 IF n = <<"b">> THEN <<"a", " ", "1">> ELSE <<"a", " ", "2">>]
DriverParams == AllParameters(DriverArgs, << <<"i">> >>, << <<"i">> >>,
                              << <<"A">>, <<"B">> >>)
DriverConfigs ==
    { BuildConfiguration(DriverParams.keys[i], DriverParams.values[j],
                         DriverParams.tables[l]) :
        i \in 1..Len(DriverParams.keys), j \in 1..Len(DriverParams.values),
        l \in 1..Len(DriverParams.tables) }

\* The orders in which a caller may pass some of the catalog's argspec names.
ArgSpecLists(args) ==
    { q \in SeqsUpTo(DOMAIN args, 0, Cardinality(DOMAIN args)) :
        \A i, j \in 1..Len(q) : i # j => q[i] # q[j] }

InitDriver ==
    /\ all_params = DriverParams
    /\ MatrixIdle /\ NamingIdle /\ StatIdle
    /\ cwd \in StartDirs
    /\ RESULTS_DIR = abspath(cwd, LitResultsDir)
    /\ dirs = StartDirs
    /\ configured = {}
    /\ files = {}
    /\ events = <<>>
    /\ last = NoCall
    /\ calls = 0
    /\ main = NoMain

CallCreate(c, force_rebuild, cmake_exit) ==
    /\ calls < MaxCalls
    /\ LET r == create_build_configuration(FS, c, force_rebuild, cmake_exit) IN
       /\ cwd' = r.cwd /\ dirs' = r.dirs /\ configured' = r.configured
       /\ files' = r.files /\ events' = r.events
       /\ last' = [call |-> "create", config |-> c, force |-> force_rebuild,
                   build_dir |-> abspath(cwd, build_dir(c)), raised |-> r.raised]
    /\ calls' = calls + 1
    /\ UNCHANGED <<all_params, matrixVars, namingVars, statVars, RESULTS_DIR, main>>

CallRun(c, argspecs, make_exit, bench_exits) ==
    /\ calls < MaxCalls
    \* make cannot succeed in a directory cmake has not configured
    /\ abspath(cwd, build_dir(c)) \notin configured => make_exit # 0
    /\ LET r == run_configuration(FS, RESULTS_DIR, all_params, c, argspecs,
                                  make_exit, bench_exits) IN
       /\ cwd' = r.cwd /\ dirs' = r.dirs /\ configured' = r.configured
       /\ files' = r.files /\ events' = r.events
       /\ last' = [call |-> "run", config |-> c, force |-> FALSE,
                   build_dir |-> abspath(cwd, build_dir(c)), raised |-> r.raised]
    /\ calls' = calls + 1
    /\ UNCHANGED <<all_params, matrixVars, namingVars, statVars, RESULTS_DIR, main>>

NextDriver ==
    \/ \E c \in DriverConfigs, f \in BOOLEAN, x \in ExitCodes : CallCreate(c, f, x)
    \/ \E c \in DriverConfigs, q \in ArgSpecLists(all_params.args), x \in ExitCodes :
          \E b \in [1..Len(q) -> ExitCodes] : CallRun(c, q, x, b)

SpecDriver == InitDriver /\ [][NextDriver]_vars

(***************************************************************************)
(* Campaign specification: run_benchmarks.py's __main__.  An exception     *)
(* that leaves a call is caught nowhere and ends the process.              *)
(***************************************************************************)
CampaignTables == SeqsUpTo(TableNames, 1, MaxAxis)

\* The build directories an earlier campaign may have left behind, each
\* configured or not.
EarlierBuilds(p) ==
    { abspath(d, build_dir(BuildConfiguration(p.keys[1], p.values[1], p.tables[l]))) :
        d \in StartDirs, l \in 1..Len(p.tables) }

InitCampaign ==
    /\ \E t \in CampaignTables :
          all_params = AllParameters(DriverArgs, << <<"i">> >>, << <<"i">> >>, t)
    /\ gen = product_start(all_params)
    /\ yielded = <<>>
    /\ NamingIdle /\ StatIdle
    /\ cwd \in StartDirs
    /\ RESULTS_DIR = abspath(cwd, LitResultsDir)
    /\ \E B \in SUBSET EarlierBuilds(all_params) :
          /\ dirs = StartDirs \cup B
          /\ configured \in SUBSET B
    /\ files = {}
    /\ events = <<>>
    /\ last = NoCall
    /\ calls = 0
    /\ main = [phase |-> "next", build_config |-> NoConf]

\* `for build_config in all_params.get_build_configurations()`: next(generator)
MainNextConfig ==
    /\ main.phase = "next"
    /\ IF gen.done
       THEN /\ main' = [main EXCEPT !.phase = "done"]
            /\ UNCHANGED <<gen, yielded>>
       ELSE LET c == BuildConfiguration(all_params.keys[gen.pos[1]],
                                        all_params.values[gen.pos[2]],
                                        all_params.tables[gen.pos[3]]) IN
            /\ main' = [phase |-> "create", build_config |-> c]
            /\ yielded' = Append(yielded, c)
            /\ gen' = product_advance(all_params, gen.pos)
    /\ UNCHANGED <<all_params, namingVars, statVars, cwd, dirs, configured,
                   files, RESULTS_DIR, events, last, calls>>

\* create_build_configuration(build_config)
MainCreate(cmake_exit) ==
    /\ main.phase = "create"
    /\ LET r == create_build_configuration(FS, main.build_config, FALSE, cmake_exit) IN
       /\ cwd' = r.cwd /\ dirs' = r.dirs /\ configured' = r.configured
       /\ files' = r.files
       /\ events' = events \o r.events
       /\ last' = [call |-> "create", config |-> main.build_config, force |-> FALSE,
                   build_dir |-> abspath(cwd, build_dir(main.build_config)),
                   raised |-> r.raised]
       /\ main' = [main EXCEPT !.phase = IF r.raised = "none" THEN "run" ELSE "failed"]
    /\ calls' = calls + 1
    /\ UNCHANGED <<all_params, matrixVars, namingVars, statVars, RESULTS_DIR>>

\* run_configuration(all_params, build_config, all_params.args.keys())
MainRun(argspecs, make_exit, bench_exits) ==
    /\ main.phase = "run"
    /\ Len(argspecs) = Cardinality(DOMAIN all_params.args)
    /\ abspath(cwd, build_dir(main.build_config)) \notin configured => make_exit # 0
    /\ LET r == run_configuration(FS, RESULTS_DIR, all_params, main.build_config,
                                  argspecs, make_exit, bench_exits) IN
       /\ cwd' = r.cwd /\ dirs' = r.dirs /\ configured' = r.configured
       /\ files' = r.files
       /\ events' = events \o r.events
       /\ last' = [call |-> "run", config |-> main.build_config, force |-> FALSE,
                   build_dir |-> abspath(cwd, build_dir(main.build_config)),
                   raised |-> r.raised]
       /\ main' = [main EXCEPT !.phase = IF r.raised = "none" THEN "next" ELSE "failed"]
    /\ calls' = calls + 1
    /\ UNCHANGED <<all_params, matrixVars, namingVars, statVars, RESULTS_DIR>>

NextCampaign ==
    \/ MainNextConfig
    \/ \E x \in ExitCodes : MainCreate(x)
    \/ \E q \in ArgSpecLists(all_params.args), x \in ExitCodes :
          \E b \in [1..Len(q) -> ExitCodes] : MainRun(q, x, b)

SpecCampaign == InitCampaign /\ [][NextCampaign]_vars

(***************************************************************************)
(* Properties                                                              *)
(***************************************************************************)
Range(q) == { q[i] : i \in 1..Len(q) }
NoRepeat(q) == \A i, j \in 1..Len(q) : i # j => q[i] # q[j]
Occurrences(q, x) == Cardinality({ n \in 1..Len(q) : q[n] = x })

\* C1 as stated: once the generator is exhausted it has yielded exactly
\* |K|*|V|*|T| configurations, every triple of K x V x T exactly once, tables
\* varying fastest, then values, then keys.
C1_EveryTripleOnce ==
    LET K == all_params.keys  V == all_params.values  T == all_params.tables IN
    gen.done =>
        /\ Len(yielded) = Len(K) * Len(V) * Len(T)
        /\ \A k \in Range(K), v \in Range(V), t \in Range(T) :
              Occurrences(yielded, BuildConfiguration(k, v, t)) = 1
        /\ \A n \in 1..Len(yielded) :
              yielded[n] = BuildConfiguration(
                              K[((n - 1) \div (Len(V) * Len(T))) + 1],
                              V[(((n - 1) \div Len(T)) % Len(V)) + 1],
                              T[((n - 1) % Len(T)) + 1])

\* C1 amended: the n-th configuration yielded is the one at the n-th index
\* triple, tables varying fastest, then values, then keys; an exhausted
\* generator has yielded |K|*|V|*|T| configurations; and every triple has
\* been yielded exactly once when no axis list repeats an entry.
C1_MatrixByPosition ==
    LET K == all_params.keys  V == all_params.values  T == all_params.tables IN
    /\ \A n \in 1..Len(yielded) :
          yielded[n] = BuildConfiguration(
                          K[((n - 1) \div (Len(V) * Len(T))) + 1],
                          V[(((n - 1) \div Len(T)) % Len(V)) + 1],
                          T[((n - 1) % Len(T)) + 1])
    /\ gen.done => Len(yielded) = Len(K) * Len(V) * Len(T)
    /\ (gen.done /\ NoRepeat(K) /\ NoRepeat(V) /\ NoRepeat(T)) =>
          \A k \in Range(K), v \in Range(V), t \in Range(T) :
              Occurrences(yielded, BuildConfiguration(k, v, t)) = 1

C1_Witness ==
    /\ gen.done
    /\ all_params.keys = << <<"a">>, <<"b">> >>
    /\ all_params.values = << <<"b">>, <<"a">> >>
    /\ all_params.tables = << <<"a">>, <<"b">> >>
    /\ Len(yielded) = 8

\* C2: two (key, value, table) triples that differ get different build
\* directories, and two (key, value, table, argspec) tuples that differ get
\* different result files.
C2_NamingInjective ==
    named.set =>
        /\ confA # confB => named.dirA # named.dirB
        /\ <<confA, argA>> # <<confB, argB>> => named.fileA # named.fileB

\* The number of whitespace-separated tokens of a line, counted at token starts.
TokenCount(line) ==
    Cardinality({ i \in 1..Len(line) :
                    /\ line[i] \notin Whitespace
                    /\ (i = 1 \/ line[i - 1] \in Whitespace) })

\* The query's flag/value pairs are all pairs of record d, and d has the
\* query's key and value: stated on token positions.
MatchesQuery(d) ==
    LET q == split(all_params.args[query.argspec])
        r == split(d.args)
    IN  /\ d.key = query.key
        /\ d.value = query.value
        /\ Len(r) % 2 = 0
        /\ \A i \in 1..(Len(q) \div 2) :
              \E j \in 1..(Len(r) \div 2) :
                  q[2 * i - 1] = r[2 * j - 1] /\ q[2 * i] = r[2 * j]

\* A step of the loop: one more record of data has been consumed.
IterStep == seen' = seen + 1

\* C3: a record the loop passes without an exception is added to the series
\* if and only if it has the query's key and value and every flag/value pair
\* of the query's command line is a pair of the record's args; the series
\* returned is the one so built.
C3_IncludedIffSubset ==
    [][ /\ (IterStep /\ pc' = "loop") =>
             ((Len(ret'.xs) = Len(ret.xs) + 1) <=> MatchesQuery(datum'))
        /\ (IterStep /\ pc' = "loop") =>
             (Len(ret'.xs) = Len(ret.xs) \/ Len(ret'.xs) = Len(ret.xs) + 1)
        /\ pc' = "returned" => result' = Returned(ret')
      ]_vars

\* A record with an extra pair has matched a one-pair query.
C3_Witness ==
    /\ pc = "loop"
    /\ seen = 2
    /\ argspec_set = { <<"a", "1">> }
    /\ datum.args = <<"a", " ", "2", " ", "a", " ", "1">>
    /\ Len(ret.xs) = 1

\* C4: xs and ys grow together, one entry per matching record, appended in
\* the order the records are consumed: the record's table to xs and its
\* output[statName].value to ys; a record that does not match changes neither.
C4_SeriesPairsInOrder ==
    [][ /\ Len(ret'.xs) = Len(ret'.ys)
        /\ (IterStep /\ pc' = "loop" /\ MatchesQuery(datum')) =>
              /\ ret'.xs = Append(ret.xs, datum'.table)
              /\ ret'.ys = Append(ret.ys, datum'.output[query.outstat].value)
        /\ (IterStep /\ ~MatchesQuery(datum')) =>
              /\ ret'.xs = ret.xs
              /\ ret'.ys = ret.ys
        /\ pc' = "returned" => (result'.series.xs = ret.xs /\ result'.series.ys = ret.ys)
      ]_vars

\* Two matching records of the same table are both in the returned series.
C4_Witness ==
    /\ pc = "returned"
    /\ result.series.xs = << <<"A">>, <<"A">> >>
    /\ result.series.ys = << 2, 1 >>

\* C5: a record that matches the query and has no entry for the statistic
\* makes get_stat raise KeyError, and once get_stat has raised it returns no
\* series.
C5_MissingStatRaises ==
    [][ /\ (IterStep /\ MatchesQuery(datum')
               /\ query.outstat \notin DOMAIN datum'.output) =>
              (pc' = "raised" /\ result' = Raised("KeyError"))
        /\ pc = "raised" => (pc' = "raised" /\ result' = result)
        /\ pc' = "raised" => result'.kind # "series"
      ]_vars

\* After one match, a matching record without the statistic ends the call.
C5_Witness ==
    /\ pc = "raised"
    /\ result = Raised("KeyError")
    /\ seen = 2
    /\ Len(ret.xs) = 1
    /\ MatchesQuery(datum)
    /\ DOMAIN datum.output = {}

\* C10: an odd number of tokens in the query's command line, or in the args
\* of any record the loop reaches (whatever its key and value), makes
\* get_stat raise IndexError, and then it returns no series.
C10_OddTokensRaise ==
    [][ /\ (pc = "idle" /\ pc' # "idle" /\ query.argspec \in DOMAIN all_params.args
               /\ TokenCount(all_params.args[query.argspec]) % 2 = 1) =>
              (pc' = "raised" /\ result' = Raised("IndexError"))
        /\ (IterStep /\ TokenCount(datum'.args) % 2 = 1) =>
              (pc' = "raised" /\ result' = Raised("IndexError"))
        /\ pc = "raised" => (pc' = "raised" /\ result' = result)
        /\ pc' = "returned" => result'.kind = "series"
      ]_vars

\* A record of another key with an unpaired token has ended the call.
C10_Witness ==
    /\ pc = "raised"
    /\ result = Raised("IndexError")
    /\ seen = 2
    /\ datum.key # query.key
    /\ TokenCount(datum.args) = 3

\* A step that is a call of create_build_configuration without force_rebuild
\* for a configuration whose build directory exists when the call begins.
SkippedCreateStep ==
    /\ calls' = calls + 1
    /\ last'.call = "create"
    /\ ~last'.force
    /\ last'.build_dir \in dirs

\* C6: create_build_configuration without force_rebuild, for a configuration
\* whose build directory exists, creates and removes no directory, starts no
\* external process, leaves the working directory alone and raises nothing.
C6_ExistingBuildIsNoOp ==
    [][ SkippedCreateStep =>
          /\ dirs' = dirs /\ configured' = configured /\ files' = files
          /\ cwd' = cwd
          /\ events' = <<>>
          /\ last'.raised = "none"
      ]_vars

\* A call has returned early for a build directory that exists.
C6_Witness ==
    /\ last.call = "create"
    /\ ~last.force
    /\ last.raised = "none"
    /\ last.build_dir \in dirs
    /\ events = <<>>
    /\ calls = 2

\* C7: in a campaign, an external process that exits non-zero is the last
\* external step taken (no process is started and no result file is opened
\* after it), the campaign is then in its failed state, and a failed campaign
\* takes no further step.
C7_FailureHaltsCampaign ==
    [][ /\ main.phase # "failed"
        /\ \A i \in 1..Len(events') :
              events'[i].exit # 0 => (i = Len(events') /\ main'.phase = "failed")
      ]_vars

\* The first benchmark run of a configuration has failed while a second
\* argspec and a second configuration were still to run.
C7_Witness ==
    /\ main.phase = "failed"
    /\ Len(all_params.tables) = 2
    /\ Len(yielded) = 1
    /\ Len(events) = 4
    /\ events[4].kind = "benchmark"
    /\ events[4].exit # 0

\* C8: the working directory when a call of create_build_configuration or
\* run_configuration ends is the working directory when the call began.
C8_CwdRestored == [][ calls' = calls + 1 => cwd' = cwd ]_vars

\* C9: whenever create_build_configuration has returned without an exception,
\* the configuration's build directory exists and cmake has completed in it
\* since the directory was created.
C9_ReturnedMeansConfigured ==
    (last.call = "create" /\ last.raised = "none") =>
        (last.build_dir \in dirs /\ last.build_dir \in configured)

=============================================================================
